---------------------------- MODULE Spec2Model ----------------------------
(***************************************************************************)
(* Video analysis pipeline of frontend/src/VideoAnalyzer.jsx: the React    *)
(* state of the VideoAnalyzer component, the file handlers, and the single *)
(* asynchronous run of handleStartAnalysis (metadata load, frame-rate      *)
(* probe, sequential frame extraction, batched dispatch, aggregation).     *)
(*                                                                         *)
(* One action is one uninterrupted stretch of JavaScript: an event handler,*)
(* or the code of handleStartAnalysis between two awaits.                  *)
(*                                                                         *)
(* Time.  Durations are integers counted in ticks, TicksPerMs ticks to the *)
(* millisecond.  The extraction loop's t and frameInterval are rationals   *)
(* with denominator fps; the model keeps their numerators (value * fps,    *)
(* in ticks), so t < duration and toFixed(3) are computed exactly.  The    *)
(* accumulated binary floating-point error of t += frameInterval is not    *)
(* modelled.                                                               *)
(***************************************************************************)
EXTENDS Integers, Sequences, FiniteSets, TLC

\* ------------------------------------------------------------ bounds ----
\* Resolution of durations: ticks per millisecond.
TicksPerMs == 2
\* Number of object URLs (file selections) a behaviour may create.
MaxUrls == 3
\* Longest duration, in ticks, the sampler specification draws.
MaxDuration == 340
\* Resolution of raw scores: score units per percentage point.
PerPercent == 10
\* Longest incident log the severity specification draws.
MaxIncidents == 3
MaxImages == 3
MaxPreviews == 4

\* ------------------------------------------------- program constants ----
SAMPLE_EVERY == 10
BATCH_SIZE == 3
MAX_FPS == 120
DEFAULT_FPS == 30
FRAMES_TO_MEASURE == 10

TicksPerSecond == 1000 * TicksPerMs

NoError == "none"
NoUrl == 0
NoFps == 0

Min(a, b) == IF a < b THEN a ELSE b

\* ------------------------------------------------------------- files ----
\* A file: whether handleFile takes it for a video (its type starts with
\* 'video/' or its name ends in .mp4, .mov, .webm), whether the hidden video
\* element fires loadedmetadata (TRUE) or error (FALSE) on it, and
\* videoEl.duration in ticks, 0 standing for a non-finite or non-positive
\* duration (an unseekable stream).
Video(dur) == [isVideo |-> TRUE, loads |-> TRUE, duration |-> dur]
NoFile == [isVideo |-> FALSE, loads |-> FALSE, duration |-> 0 - 1]
BrokenVideo == [isVideo |-> TRUE, loads |-> FALSE, duration |-> 0]
NotAVideo == [isVideo |-> FALSE, loads |-> FALSE, duration |-> 0]

\* The files a user may drop or pick in the pipeline specification: clips of
\* 0.667 s, 1.2 s and 1.5 s, a stream without duration, an unreadable video
\* and a file that is no video.
Files ==
    { Video(667 * TicksPerMs), Video(1200 * TicksPerMs),
      Video(1500 * TicksPerMs), Video(0), BrokenVideo, NotAVideo }

\* Frame rates detectFPS delivers in the pipeline specification.
ProbedRates == {15, DEFAULT_FPS}

\* ------------------------------------------------ inference endpoint ----
\* What the endpoint would answer to the 1st, 2nd, 3rd ... request for one
\* frame: "fail" (network error, server error, timeout), "safe" or "crack".
Scripts ==
    { <<"crack">>, <<"safe">>,
      <<"fail", "fail", "crack">>, <<"fail", "fail", "fail">> }

\* Outcome of the k-th request for a frame under script s (a script's last
\* answer repeats).
Answer(s, k) == s[Min(k, Len(s))]

\* --------------------------------------------------------- helpers ------
\* Mutant of chunk: the array is never split, one batch holds every frame.
chunkWhole(arr, size) == IF Len(arr) = 0 THEN <<>> ELSE <<arr>>

\* chunk(arr, size)
RECURSIVE chunk(_, _)
chunk(arr, size) ==
    IF Len(arr) = 0 THEN <<>>
    ELSE <<SubSeq(arr, 1, Min(size, Len(arr)))>>
           \o chunk(SubSeq(arr, Min(size, Len(arr)) + 1, Len(arr)), size)

\* rawInterval = SAMPLE_EVERY / fps, as a numerator over fps, in ticks.
RawIntervalNum(rate) == SAMPLE_EVERY * TicksPerSecond

\* Mutant of FrameIntervalNum: the clamp to the duration is forgotten.
FrameIntervalUnclamped(rate, dur) == RawIntervalNum(rate)

\* frameInterval = Math.min(rawInterval, duration), numerator over fps.
FrameIntervalNum(rate, dur) == Min(RawIntervalNum(rate), dur * rate)

\* parseFloat(t.toFixed(3)): t (numerator tNum over fps, in ticks) rounded
\* to the nearest millisecond, ties upward.  The result is in milliseconds.
ToFixed3(tNum, rate) ==
    (2 * tNum + rate * TicksPerMs) \div (2 * rate * TicksPerMs)

\* Mutant of LoopContinues: the loop test is t <= duration.
LoopContinuesInclusive(tNum, rate, dur) == tNum <= dur * rate

\* The loop test t < duration.
LoopContinues(tNum, rate, dur) == tNum < dur * rate

\* Mutant of TotalSamplesOf: the count is computed from duration / interval
\* (Math.floor) instead of being taken from the frames produced.
TotalSamplesFloor(fr, rate, dur) ==
    (dur * rate) \div FrameIntervalNum(rate, dur)

\* totalSamples returned by extractFrames.
TotalSamplesOf(fr, rate, dur) == Len(fr)

\* Mutant of SendFrame: no try/catch, a failed request rejects the promise.
SendFrameNoCatch(frame, s) ==
    LET outcome == Answer(s, 1) IN
    IF outcome = "fail"
    THEN [status |-> "rejected", value |-> <<>>]
    ELSE IF outcome = "crack"
    THEN [status |-> "fulfilled", value |-> <<[timestamp |-> frame.timestamp]>>]
    ELSE [status |-> "fulfilled", value |-> <<>>]

\* Mutant of SendFrame: the incident is stamped with the time after the
\* frame's instead of the frame's own.
SendFrameWrongStamp(frame, s) ==
    LET outcome == Answer(s, 1) IN
    IF outcome = "crack"
    THEN [status |-> "fulfilled",
          value |-> <<[timestamp |-> frame.timestamp + 1]>>]
    ELSE [status |-> "fulfilled", value |-> <<>>]

\* sendFrame: one POST; a response whose result includes 'CRACK' yields an
\* incident, any other response or a caught failure yields null.  The value
\* is the settled promise: status and, as a sequence of at most one
\* element, the non-null value.
SendFrame(frame, s) ==
    LET outcome == Answer(s, 1) IN
    IF outcome = "crack"
    THEN [status |-> "fulfilled", value |-> <<[timestamp |-> frame.timestamp]>>]
    ELSE [status |-> "fulfilled", value |-> <<>>]

\* results.filter(Boolean) over Promise.all's results, which keep the order
\* of the batch whatever order the requests settled in.
RECURSIVE Cracks(_, _)
Cracks(batch, scr) ==
    IF Len(batch) = 0 THEN <<>>
    ELSE SendFrame(batch[1], scr[batch[1].blob]).value
           \o Cracks(Tail(batch), scr)

\* Mutant of Appended: the batch's incidents are put in front of the log.
Prepended(prev, cracks) == cracks \o prev

\* setIncidentLog(prev => [...prev, ...cracks])
Appended(prev, cracks) == prev \o cracks

\* Mutant of Advanced: the counter goes up by one per batch.
AdvancedByOne(done, batch) == done + 1

\* processed += batch.length
Advanced(done, batch) == done + Len(batch)

\* ------------------------------------------------------------ state -----
VARIABLES
    \* React state of VideoAnalyzer
    videoFile, videoUrl, isAnalyzing, progress, incidentLog,
    analysisComplete, error, detectedFps,
    \* object URLs created so far
    urlCount,
    \* the run of handleStartAnalysis: position, hidden video, locals
    pc, src, srcFile, duration, fps, frameInterval, t, frames,
    totalSamples, batchIdx, processed, inflight, script,
    \* the visible player (videoRef) and the hidden extraction video
    \* (hiddenVideoRef): position and paused state
    player, hidden,
    \* detectFPS: whether requestVideoFrameCallback exists, the samples, the
    \* 5 s timer, the pending frame callback, the promise of play() and the
    \* promise detectFPS returned
    rvfc, mediaTimes, timeout, onFrameRequested, playPromise, fpsPromise,
    \* what was derived from the log: the severity badges of the incident
    \* cards, and the severity figures of the PDF report
    cards, report,
    \* image mode: the React state of App, and the file of the /predict
    \* request that is in flight
    app, posted

uiVars == <<videoFile, videoUrl, isAnalyzing, progress, incidentLog,
            analysisComplete, error, detectedFps>>
runVars == <<pc, src, srcFile, duration, fps, frameInterval, t, frames,
             totalSamples, batchIdx, processed, inflight, script>>
mediaVars == <<player, hidden>>
probeVars == <<rvfc, mediaTimes, timeout, onFrameRequested, playPromise,
               fpsPromise>>
viewVars == <<cards, report>>
imageVars == <<app, posted>>
deviceVars == <<mediaVars, probeVars, viewVars, imageVars>>
vars == <<uiVars, urlCount, runVars, deviceVars>>

NoProgress == [processed |-> 0, total |-> 0]

\* A position of the hidden video: num / den ticks (den is 1, or the frame
\* rate when extractFrames set the position to t).
Zero == [num |-> 0, den |-> 1]

\* A media element whose src was just assigned, or that has none: paused at
\* time zero.  The visible player's position is in milliseconds.
FreshVideo == [currentTime |-> Zero, paused |-> TRUE]
FreshPlayer == [currentTime |-> 0, paused |-> TRUE]

\* A promise: "none" (not created), "pending", "resolved" with a value whose
\* await has not resumed yet, "consumed" once it has.
NoPromise == [state |-> "none", value |-> 0]

\* No card rendered, no report generated.
NoCards == [shown |-> FALSE, labels |-> <<>>]
NoReport == [made |-> FALSE, counts |-> <<0, 0, 0>>, pages |-> <<>>,
             rows |-> <<>>]

\* Image mode: an image file with its name, a file that is no image, and
\* null (no file selected, no request in flight).
Image(name) == [isImage |-> TRUE, name |-> name]
NotAnImage == [isImage |-> FALSE, name |-> 0]
NoImage == [isImage |-> FALSE, name |-> 0 - 1]

\* App's result state before any response, and App's initial state.
NoResult == [of |-> NoImage, crack |-> FALSE]
FreshApp == [selectedFile |-> NoImage, preview |-> NoUrl, result |-> NoResult,
             loading |-> FALSE, error |-> NoError]

\* No probe under way, both media elements fresh, nothing derived, image
\* mode untouched.
DevicesFresh ==
    /\ app = FreshApp
    /\ posted = NoImage
    /\ cards = NoCards
    /\ report = NoReport
    /\ player = FreshPlayer
    /\ hidden = FreshVideo
    /\ rvfc = TRUE
    /\ mediaTimes = <<>>
    /\ timeout = FALSE
    /\ onFrameRequested = FALSE
    /\ playPromise = "none"
    /\ fpsPromise = NoPromise

Init ==
    /\ DevicesFresh
    /\ videoFile = NoFile
    /\ videoUrl = NoUrl
    /\ isAnalyzing = FALSE
    /\ progress = NoProgress
    /\ incidentLog = <<>>
    /\ analysisComplete = FALSE
    /\ error = NoError
    /\ detectedFps = NoFps
    /\ urlCount = 0
    /\ pc = "idle"
    /\ src = NoUrl
    /\ srcFile = NoFile
    /\ duration = 0
    /\ fps = NoFps
    /\ frameInterval = 0
    /\ t = 0
    /\ frames = <<>>
    /\ totalSamples = 0
    /\ batchIdx = 0
    /\ processed = 0
    /\ inflight = {}
    /\ script = <<>>

\* ------------------------------------------------------ user actions ----
\* handleFile with a file that is not a video.
HandleFileRejected(file) ==
    /\ videoFile = NoFile
    /\ ~file.isVideo
    /\ error' = "Please upload a video file (.mp4, .mov, .webm)"
    /\ UNCHANGED <<videoFile, videoUrl, isAnalyzing, progress, incidentLog,
                   analysisComplete, detectedFps, urlCount, runVars>>

\* handleFile with a video.
HandleFileAccepted(file) ==
    /\ videoFile = NoFile
    /\ file.isVideo
    /\ urlCount < MaxUrls
    /\ urlCount' = urlCount + 1
    /\ videoFile' = file
    /\ videoUrl' = urlCount + 1
    /\ incidentLog' = <<>>
    /\ analysisComplete' = FALSE
    /\ error' = NoError
    /\ progress' = NoProgress
    /\ UNCHANGED <<isAnalyzing, detectedFps, runVars>>

\* handleFile, reachable from the upload zone, rendered while no file is
\* selected.
HandleFile(file) == HandleFileRejected(file) \/ HandleFileAccepted(file)

\* Mutant of ChangeFile: setIncidentLog([]) is forgotten.
ChangeFileKeepsLog ==
    /\ videoFile # NoFile
    /\ videoFile' = NoFile
    /\ videoUrl' = NoUrl
    /\ analysisComplete' = FALSE
    /\ progress' = NoProgress
    /\ UNCHANGED <<incidentLog, isAnalyzing, error, detectedFps, urlCount,
                   runVars>>

\* Mutant of ChangeFile: setProgress is forgotten.
ChangeFileKeepsProgress ==
    /\ videoFile # NoFile
    /\ videoFile' = NoFile
    /\ videoUrl' = NoUrl
    /\ incidentLog' = <<>>
    /\ analysisComplete' = FALSE
    /\ UNCHANGED <<progress, isAnalyzing, error, detectedFps, urlCount,
                   runVars>>

\* Mutant of ChangeFile: setAnalysisComplete(false) is forgotten.
ChangeFileStaysComplete ==
    /\ videoFile # NoFile
    /\ videoFile' = NoFile
    /\ videoUrl' = NoUrl
    /\ incidentLog' = <<>>
    /\ progress' = NoProgress
    /\ UNCHANGED <<analysisComplete, isAnalyzing, error, detectedFps,
                   urlCount, runVars>>

\* The 'Change file' button, rendered while a file is selected.
ChangeFile ==
    /\ videoFile # NoFile
    /\ videoFile' = NoFile
    /\ videoUrl' = NoUrl
    /\ incidentLog' = <<>>
    /\ analysisComplete' = FALSE
    /\ progress' = NoProgress
    /\ UNCHANGED <<isAnalyzing, error, detectedFps, urlCount, runVars>>

\* ---------------------------------------------------- the analysis run --
\* Mutant of RunFails: the catch block does not call setError.
RunFailsSilently ==
    /\ error' = error
    /\ isAnalyzing' = FALSE
    /\ pc' = "idle"

\* Mutant of RunFails: there is no finally block, setIsAnalyzing(false) is
\* not reached on failure.
RunFailsNoFinally ==
    /\ error' = "Analysis failed"
    /\ isAnalyzing' = isAnalyzing
    /\ pc' = "idle"

\* catch + finally of handleStartAnalysis.
RunFails ==
    /\ error' = "Analysis failed"
    /\ isAnalyzing' = FALSE
    /\ pc' = "idle"

\* Mutant of HandleStartAnalysis: the Start button is also rendered after a
\* completed analysis.
HandleStartAnalysisAgain ==
    /\ videoFile # NoFile
    /\ ~isAnalyzing
    /\ isAnalyzing' = TRUE
    /\ incidentLog' = <<>>
    /\ analysisComplete' = FALSE
    /\ error' = NoError
    /\ detectedFps' = NoFps
    /\ src' = videoUrl
    /\ srcFile' = videoFile
    /\ pc' = "loading"
    /\ duration' = 0
    /\ fps' = NoFps
    /\ frameInterval' = 0
    /\ t' = 0
    /\ frames' = <<>>
    /\ totalSamples' = 0
    /\ batchIdx' = 0
    /\ processed' = 0
    /\ inflight' = {}
    /\ script' = <<>>
    /\ UNCHANGED <<videoFile, videoUrl, progress, urlCount>>

\* Mutant of HandleStartAnalysis: no early return (and no hidden button)
\* while a run is analyzing.
HandleStartAnalysisWhileRunning ==
    /\ videoFile # NoFile
    /\ ~analysisComplete
    /\ isAnalyzing' = TRUE
    /\ incidentLog' = <<>>
    /\ analysisComplete' = FALSE
    /\ error' = NoError
    /\ detectedFps' = NoFps
    /\ src' = videoUrl
    /\ srcFile' = videoFile
    /\ pc' = "loading"
    /\ duration' = 0
    /\ fps' = NoFps
    /\ frameInterval' = 0
    /\ t' = 0
    /\ frames' = <<>>
    /\ totalSamples' = 0
    /\ batchIdx' = 0
    /\ processed' = 0
    /\ inflight' = {}
    /\ script' = <<>>
    /\ UNCHANGED <<videoFile, videoUrl, progress, urlCount>>

\* handleStartAnalysis up to its first await; the Start button is rendered
\* while a file is selected and !isAnalyzing && !analysisComplete.
HandleStartAnalysis ==
    /\ videoFile # NoFile
    /\ ~isAnalyzing
    /\ ~analysisComplete
    /\ isAnalyzing' = TRUE
    /\ incidentLog' = <<>>
    /\ analysisComplete' = FALSE
    /\ error' = NoError
    /\ detectedFps' = NoFps
    /\ src' = videoUrl
    /\ srcFile' = videoFile
    /\ pc' = "loading"
    /\ duration' = 0
    /\ fps' = NoFps
    /\ frameInterval' = 0
    /\ t' = 0
    /\ frames' = <<>>
    /\ totalSamples' = 0
    /\ batchIdx' = 0
    /\ processed' = 0
    /\ inflight' = {}
    /\ script' = <<>>
    /\ UNCHANGED <<videoFile, videoUrl, progress, urlCount>>

\* The hidden video fires loadedmetadata; the run goes on to detectFPS.
MetadataLoaded ==
    /\ pc = "loading"
    /\ srcFile.loads
    /\ duration' = srcFile.duration
    /\ pc' = "probing"
    /\ UNCHANGED <<uiVars, urlCount, src, srcFile, fps, frameInterval, t, frames,
                   totalSamples, batchIdx, processed, inflight, script>>

\* The hidden video fires error: the load promise rejects.
MetadataError ==
    /\ pc = "loading"
    /\ ~srcFile.loads
    /\ RunFails
    /\ UNCHANGED <<videoFile, videoUrl, progress, incidentLog,
                   analysisComplete, detectedFps, urlCount, src, srcFile,
                   duration, fps, frameInterval, t, frames, totalSamples,
                   batchIdx, processed, inflight, script>>

\* detectFPS resolves with rate; extractFrames runs up to its first seek.
ProbeResolved(rate) ==
    /\ pc = "probing"
    /\ fps' = rate
    /\ detectedFps' = rate
    /\ IF duration <= 0
       THEN /\ RunFails
            /\ UNCHANGED <<frameInterval, t>>
       ELSE /\ frameInterval' = FrameIntervalNum(rate, duration)
            /\ t' = 0
            /\ pc' = "seeking"
            /\ UNCHANGED <<isAnalyzing, error>>
    /\ UNCHANGED <<videoFile, videoUrl, progress, incidentLog,
                   analysisComplete, urlCount, src, srcFile, duration,
                   frames, totalSamples, batchIdx, processed, inflight,
                   script>>

\* The seeked event resumes waitForSeek; drawImage, then toBlob is awaited.
Seeked ==
    /\ pc = "seeking"
    /\ pc' = "encoding"
    /\ UNCHANGED <<uiVars, urlCount, src, srcFile, duration, fps, frameInterval,
                   t, frames,
                   totalSamples, batchIdx, processed, inflight, script>>

\* The blobs of a batch, as the set of requests batch.map(sendFrame) issues.
BlobsOf(batch) == {batch[i].blob : i \in 1..Len(batch)}

\* toBlob delivers the image: frames.push, t += frameInterval, and either the
\* next seek or the end of extractFrames, setProgress and the first batch.
Encoded ==
    /\ pc = "encoding"
    /\ LET pushed == Append(frames, [blob |-> Len(frames) + 1,
                                     timestamp |-> ToFixed3(t, fps)])
           next == t + frameInterval
       IN
       /\ frames' = pushed
       /\ t' = next
       /\ IF LoopContinues(next, fps, duration)
          THEN /\ pc' = "seeking"
               /\ UNCHANGED <<uiVars, totalSamples, batchIdx, processed,
                              inflight, script>>
          ELSE LET total == TotalSamplesOf(pushed, fps, duration)
                   batches == chunk(pushed, BATCH_SIZE)
               IN
               /\ totalSamples' = total
               /\ progress' = [processed |-> 0, total |-> total]
               /\ processed' = 0
               /\ script' = [i \in 1..Len(pushed) |-> <<>>]
               /\ IF Len(batches) = 0
                  THEN /\ analysisComplete' = TRUE
                       /\ isAnalyzing' = FALSE
                       /\ pc' = "idle"
                       /\ batchIdx' = 0
                       /\ inflight' = {}
                  ELSE /\ pc' = "dispatching"
                       /\ batchIdx' = 1
                       /\ inflight' = BlobsOf(batches[1])
                       /\ UNCHANGED <<analysisComplete, isAnalyzing>>
               /\ UNCHANGED <<videoFile, videoUrl, incidentLog, error,
                              detectedFps>>
    /\ UNCHANGED <<urlCount, src, srcFile, duration, fps, frameInterval>>

\* Mutant of Settle: each request appends its incident to the log as it
\* settles, instead of the batch's results being appended together.
SettleAppendsOnArrival(b, s) ==
    /\ pc = "dispatching"
    /\ b \in inflight
    /\ LET batches == chunk(frames, BATCH_SIZE)
           batch == batches[batchIdx]
           done == Advanced(processed, batch)
       IN
       /\ script' = [script EXCEPT ![b] = s]
       /\ incidentLog' = incidentLog \o SendFrame(frames[b], s).value
       /\ IF inflight # {b}
          THEN /\ inflight' = inflight \ {b}
               /\ UNCHANGED <<progress, analysisComplete, isAnalyzing, error,
                              pc, batchIdx, processed>>
          ELSE /\ processed' = done
               /\ progress' = [processed |-> Min(done, totalSamples),
                               total |-> totalSamples]
               /\ IF batchIdx < Len(batches)
                  THEN /\ batchIdx' = batchIdx + 1
                       /\ inflight' = BlobsOf(batches[batchIdx + 1])
                       /\ UNCHANGED <<analysisComplete, isAnalyzing, pc>>
                  ELSE /\ analysisComplete' = TRUE
                       /\ isAnalyzing' = FALSE
                       /\ pc' = "idle"
                       /\ inflight' = {}
                       /\ UNCHANGED <<batchIdx>>
               /\ UNCHANGED <<error>>
    /\ UNCHANGED <<videoFile, videoUrl, detectedFps, urlCount, src, srcFile,
                   duration, fps, frameInterval, t, frames, totalSamples>>

\* The request for frame b settles with the endpoint answering by script s.
\* The last request of a batch to settle resumes the batch loop: filter,
\* setIncidentLog, setProgress, then the next batch or the end of the run.
Settle(b, s) ==
    /\ pc = "dispatching"
    /\ b \in inflight
    /\ LET scr == [script EXCEPT ![b] = s]
           batches == chunk(frames, BATCH_SIZE)
           batch == batches[batchIdx]
           cracks == Cracks(batch, scr)
           done == Advanced(processed, batch)
       IN
       /\ script' = scr
       /\ IF SendFrame(frames[b], s).status = "rejected"
          THEN /\ RunFails
               /\ inflight' = inflight \ {b}
               /\ UNCHANGED <<incidentLog, progress, analysisComplete,
                              batchIdx, processed>>
          ELSE IF inflight # {b}
          THEN /\ inflight' = inflight \ {b}
               /\ UNCHANGED <<incidentLog, progress, analysisComplete,
                              isAnalyzing, error, pc, batchIdx, processed>>
          ELSE /\ incidentLog' = IF Len(cracks) > 0
                                 THEN Appended(incidentLog, cracks)
                                 ELSE incidentLog
               /\ processed' = done
               /\ progress' = [processed |-> Min(done, totalSamples),
                               total |-> totalSamples]
               /\ IF batchIdx < Len(batches)
                  THEN /\ batchIdx' = batchIdx + 1
                       /\ inflight' = BlobsOf(batches[batchIdx + 1])
                       /\ UNCHANGED <<analysisComplete, isAnalyzing, pc>>
                  ELSE /\ analysisComplete' = TRUE
                       /\ isAnalyzing' = FALSE
                       /\ pc' = "idle"
                       /\ inflight' = {}
                       /\ UNCHANGED <<batchIdx>>
               /\ UNCHANGED <<error>>
    /\ UNCHANGED <<videoFile, videoUrl, detectedFps, urlCount, src, srcFile,
                   duration, fps, frameInterval, t, frames, totalSamples>>

\* ----------------------------------------------------- specification ----
\* The pipeline: React state and the run, detectFPS taken as the one step
\* that delivers its result, the media elements left out (they are followed
\* in the player and probe specifications below).
Next ==
    \/ (\E file \in Files : HandleFile(file)) /\ UNCHANGED deviceVars
    \/ ChangeFile /\ UNCHANGED deviceVars
    \/ HandleStartAnalysis /\ UNCHANGED deviceVars
    \/ MetadataLoaded /\ UNCHANGED deviceVars
    \/ MetadataError /\ UNCHANGED deviceVars
    \/ (\E rate \in ProbedRates : ProbeResolved(rate)) /\ UNCHANGED deviceVars
    \/ Seeked /\ UNCHANGED deviceVars
    \/ Encoded /\ UNCHANGED deviceVars
    \/ (\E b \in inflight, s \in Scripts : Settle(b, s))
          /\ UNCHANGED deviceVars

Spec == Init /\ [][Next]_vars

\* The steps the environment owes a run that is under way: the hidden
\* video settles the metadata load and every seek, detectFPS resolves (by
\* its timer at the latest), toBlob calls back, the endpoint settles every
\* request. The user's steps are under no obligation.
RunStep ==
    \/ MetadataLoaded
    \/ MetadataError
    \/ \E rate \in ProbedRates : ProbeResolved(rate)
    \/ Seeked
    \/ Encoded
    \/ \E b \in inflight, s \in Scripts : Settle(b, s)

\* The pipeline with a video element, timers and an endpoint that
\* eventually settle whatever the run awaits.
FairSpec == Init /\ [][Next]_vars /\ WF_vars(RunStep /\ UNCHANGED deviceVars)

\* ------------------------------------------------ sampler specification --
\* extractFrames as a function of its inputs: a run that has loaded the
\* metadata of a video of any duration up to MaxDuration ticks, probed at
\* any rate in 1..MAX_FPS, followed through the extraction loop.
SamplerInit ==
    /\ DevicesFresh
    /\ \E dur \in 1..MaxDuration :
          /\ videoFile = Video(dur)
          /\ srcFile = Video(dur)
          /\ duration = dur
    /\ videoUrl = 1
    /\ src = 1
    /\ urlCount = 1
    /\ isAnalyzing = TRUE
    /\ progress = NoProgress
    /\ incidentLog = <<>>
    /\ analysisComplete = FALSE
    /\ error = NoError
    /\ detectedFps = NoFps
    /\ pc = "probing"
    /\ fps = NoFps
    /\ frameInterval = 0
    /\ t = 0
    /\ frames = <<>>
    /\ totalSamples = 0
    /\ batchIdx = 0
    /\ processed = 0
    /\ inflight = {}
    /\ script = <<>>

SamplerNext ==
    \/ (\E rate \in 1..MAX_FPS : ProbeResolved(rate)) /\ UNCHANGED deviceVars
    \/ Seeked /\ UNCHANGED deviceVars
    \/ Encoded /\ UNCHANGED deviceVars

SamplerSpec == SamplerInit /\ [][SamplerNext]_vars

\* ------------------------------------------------ player specification --
\* Mutant of SeekTo: the hidden extraction video is repositioned instead of
\* the visible player.
SeekToHiddenRef(timestamp) ==
    /\ videoFile # NoFile
    /\ hidden' = [currentTime |-> [num |-> timestamp * TicksPerMs, den |-> 1],
                  paused |-> TRUE]
    /\ UNCHANGED <<uiVars, urlCount, runVars, player, probeVars,
                   viewVars, imageVars>>

\* seekTo(timestamp): videoRef.current exists while a file is selected.
SeekTo(timestamp) ==
    /\ videoFile # NoFile
    /\ player' = [currentTime |-> timestamp, paused |-> TRUE]
    /\ UNCHANGED <<uiVars, urlCount, runVars, hidden, probeVars,
                   viewVars, imageVars>>

\* The user starts playback with the visible player's controls.
PlayerPlay ==
    /\ videoFile # NoFile
    /\ player.paused
    /\ player' = [player EXCEPT !.paused = FALSE]
    /\ UNCHANGED <<uiVars, urlCount, runVars, hidden, probeVars,
                   viewVars, imageVars>>

\* videoEl.currentTime = t, at the head of each round of the extraction
\* loop: the hidden video is positioned when the step leaves the run
\* waiting for a seek.
ExtractSeek ==
    hidden' = IF pc' = "seeking"
              THEN [hidden EXCEPT !.currentTime = [num |-> t', den |-> fps']]
              ELSE hidden

\* The pipeline with both media elements: the visible player is mounted
\* with the selected file and unmounted by 'Change file', a run assigns the
\* hidden video's src and seeks it frame by frame, and incident cards (and
\* the heatmap modal) call seekTo with their incident's timestamp.
PlayerNext ==
    \/ /\ \E file \in Files : HandleFile(file)
       /\ player' = FreshPlayer
       /\ UNCHANGED <<hidden, probeVars, viewVars, imageVars>>
    \/ /\ ChangeFile
       /\ player' = FreshPlayer
       /\ UNCHANGED <<hidden, probeVars, viewVars, imageVars>>
    \/ /\ HandleStartAnalysis
       /\ hidden' = FreshVideo
       /\ UNCHANGED <<player, probeVars, viewVars, imageVars>>
    \/ MetadataLoaded /\ UNCHANGED deviceVars
    \/ MetadataError /\ UNCHANGED deviceVars
    \/ /\ \E rate \in ProbedRates : ProbeResolved(rate)
       /\ ExtractSeek
       /\ UNCHANGED <<player, probeVars, viewVars, imageVars>>
    \/ Seeked /\ UNCHANGED deviceVars
    \/ /\ Encoded
       /\ ExtractSeek
       /\ UNCHANGED <<player, probeVars, viewVars, imageVars>>
    \/ (\E b \in inflight, s \in Scripts : Settle(b, s))
          /\ UNCHANGED deviceVars
    \/ \E i \in 1..Len(incidentLog) : SeekTo(incidentLog[i].timestamp)
    \/ PlayerPlay

PlayerSpec == Init /\ [][PlayerNext]_vars

\* ------------------------------------------------- probe specification --
\* The positive differences of consecutive media times, in their order.
RECURSIVE Intervals(_)
Intervals(times) ==
    IF Len(times) < 2 THEN <<>>
    ELSE LET d == times[2] - times[1] IN
         (IF d > 0 THEN <<d>> ELSE <<>>) \o Intervals(Tail(times))

\* x put at its place in the ascending sequence sorted.
RECURSIVE Insert(_, _)
Insert(x, sorted) ==
    IF Len(sorted) = 0 THEN <<x>>
    ELSE IF x <= Head(sorted) THEN <<x>> \o sorted
    ELSE <<Head(sorted)>> \o Insert(x, Tail(sorted))

\* intervals.sort((a, b) => a - b)
RECURSIVE SortAscending(_)
SortAscending(seq) ==
    IF Len(seq) = 0 THEN <<>>
    ELSE Insert(Head(seq), SortAscending(Tail(seq)))

\* Math.round(1 / median), median in ticks: the nearest integer to
\* TicksPerSecond / median, ties upward.
RoundedRate(median) == (2 * TicksPerSecond + median) \div (2 * median)

\* Mutant of MeasuredRate: the plausibility test fps > 0 && fps <= 120 is
\* forgotten.
MeasuredRateUnchecked(times) ==
    LET intervals == Intervals(times) IN
    IF Len(intervals) = 0 THEN DEFAULT_FPS
    ELSE RoundedRate(SortAscending(intervals)[(Len(intervals) \div 2) + 1])

\* What onFrame resolves with once FRAMES_TO_MEASURE media times are in.
MeasuredRate(times) ==
    LET intervals == Intervals(times) IN
    IF Len(intervals) = 0 THEN DEFAULT_FPS
    ELSE LET median == SortAscending(intervals)[(Len(intervals) \div 2) + 1]
             rate == RoundedRate(median)
         IN IF rate > 0 /\ rate <= MAX_FPS THEN rate ELSE DEFAULT_FPS

\* Mutant of SafeResolveVideo: the video is rewound but not paused.
SafeResolveNoPause(video) == [video EXCEPT !.currentTime = Zero]

\* safeResolve's videoEl.pause(); videoEl.currentTime = 0.
SafeResolveVideo(video) ==
    [video EXCEPT !.currentTime = Zero, !.paused = TRUE]

\* resolve(rate): settles a pending promise, does nothing to a settled one.
Resolve(promise, rate) ==
    IF promise.state = "pending"
    THEN [state |-> "resolved", value |-> rate]
    ELSE promise

\* pause() on an element whose play() promise is pending rejects that
\* promise (its catch handler then finds the timer cleared or fired and the
\* promise of detectFPS settled).
PlayPromiseAfterPause(promise) ==
    IF promise = "pending" THEN "rejected" ELSE promise

\* detectFPS has resolved and the await in handleStartAnalysis has not
\* resumed yet: it resumes before any other event is handled.
Delivered == fpsPromise.state = "resolved"

\* loadedmetadata resumes handleStartAnalysis, which calls detectFPS: without
\* requestVideoFrameCallback it returns 30 at once; else it arms the timer,
\* mutes and rewinds the video, requests the frame callback and calls
\* play(), which starts (its promise pending) or is refused on the spot (its
\* catch handler runs before any other event).
DetectFPS(playAllowed) ==
    /\ pc = "loading"
    /\ srcFile.loads
    /\ duration' = srcFile.duration
    /\ pc' = "probing"
    /\ IF ~rvfc
       THEN /\ fpsPromise' = [state |-> "resolved", value |-> DEFAULT_FPS]
            /\ UNCHANGED <<hidden, mediaTimes, timeout, onFrameRequested,
                           playPromise>>
       ELSE /\ mediaTimes' = <<>>
            /\ onFrameRequested' = TRUE
            /\ IF playAllowed
               THEN /\ hidden' = [currentTime |-> Zero, paused |-> FALSE]
                    /\ playPromise' = "pending"
                    /\ timeout' = TRUE
                    /\ fpsPromise' = [state |-> "pending", value |-> 0]
               ELSE /\ hidden' = [hidden EXCEPT !.currentTime = Zero]
                    /\ playPromise' = "rejected"
                    /\ timeout' = FALSE
                    /\ fpsPromise' =
                          [state |-> "resolved", value |-> DEFAULT_FPS]
    /\ UNCHANGED <<uiVars, urlCount, src, srcFile, fps, frameInterval, t,
                   frames, totalSamples, batchIdx, processed, inflight,
                   script, player, rvfc, viewVars, imageVars>>

\* Playback starts: the promise of play() is fulfilled.
PlayStarted ==
    /\ ~Delivered
    /\ playPromise = "pending"
    /\ playPromise' = "fulfilled"
    /\ UNCHANGED <<uiVars, urlCount, runVars, mediaVars, rvfc, mediaTimes,
                   timeout, onFrameRequested, fpsPromise, viewVars, imageVars>>

\* The browser pauses the video before playback has started: the promise of
\* play() is rejected and its catch handler clears the timer and resolves
\* with 30.
PlayRejected ==
    /\ ~Delivered
    /\ playPromise = "pending"
    /\ playPromise' = "rejected"
    /\ hidden' = [hidden EXCEPT !.paused = TRUE]
    /\ timeout' = FALSE
    /\ fpsPromise' = Resolve(fpsPromise, DEFAULT_FPS)
    /\ UNCHANGED <<uiVars, urlCount, runVars, player, rvfc, mediaTimes,
                   onFrameRequested, viewVars, imageVars>>

\* Mutant of TimeoutFires: the handler pauses and rewinds but never
\* resolves.
TimeoutFiresNoResolve ==
    /\ ~Delivered
    /\ timeout
    /\ timeout' = FALSE
    /\ hidden' = SafeResolveVideo(hidden)
    /\ playPromise' = PlayPromiseAfterPause(playPromise)
    /\ UNCHANGED <<uiVars, urlCount, runVars, player, rvfc, mediaTimes,
                   onFrameRequested, fpsPromise, viewVars, imageVars>>

\* The 5 s timer fires: safeResolve(30).
TimeoutFires ==
    /\ ~Delivered
    /\ timeout
    /\ timeout' = FALSE
    /\ hidden' = SafeResolveVideo(hidden)
    /\ fpsPromise' = Resolve(fpsPromise, DEFAULT_FPS)
    /\ playPromise' = PlayPromiseAfterPause(playPromise)
    /\ UNCHANGED <<uiVars, urlCount, runVars, player, rvfc, mediaTimes,
                   onFrameRequested, viewVars, imageVars>>

\* The frame callback runs for a frame presented d ticks of media time
\* after the previous one (the first frame is the one at time zero, and
\* media time does not advance before playback has started).  Short of
\* FRAMES_TO_MEASURE samples it requests the next callback, whether or not
\* detectFPS has resolved meanwhile; at FRAMES_TO_MEASURE it clears the
\* timer and calls safeResolve with the measured rate.
OnFrame(d) ==
    /\ ~Delivered
    /\ onFrameRequested
    /\ mediaTimes = <<>> => d = 0
    /\ playPromise = "pending" => d = 0
    /\ LET mediaTime == IF mediaTimes = <<>> THEN 0
                        ELSE mediaTimes[Len(mediaTimes)] + d
           pushed == Append(mediaTimes, mediaTime)
           playing == IF hidden.paused THEN hidden
                      ELSE [hidden EXCEPT
                              !.currentTime = [num |-> mediaTime, den |-> 1]]
       IN
       /\ mediaTimes' = pushed
       /\ IF Len(pushed) < FRAMES_TO_MEASURE
          THEN /\ hidden' = playing
               /\ UNCHANGED <<timeout, onFrameRequested, playPromise,
                              fpsPromise>>
          ELSE /\ timeout' = FALSE
               /\ onFrameRequested' = FALSE
               /\ hidden' = SafeResolveVideo(playing)
               /\ playPromise' = PlayPromiseAfterPause(playPromise)
               /\ fpsPromise' = Resolve(fpsPromise, MeasuredRate(pushed))
    /\ UNCHANGED <<uiVars, urlCount, runVars, player, rvfc, viewVars, imageVars>>

\* await detectFPS resumes handleStartAnalysis with the delivered rate.
AwaitDetectFPS ==
    /\ Delivered
    /\ ProbeResolved(fpsPromise.value)
    /\ ExtractSeek
    /\ fpsPromise' = [fpsPromise EXCEPT !.state = "consumed"]
    /\ UNCHANGED <<player, rvfc, mediaTimes, timeout, onFrameRequested,
                   playPromise, viewVars, imageVars>>

\* Media-time steps between presented frames in the probe specification:
\* none, or 40 ms (25 fps).
ProbeDeltas == {0, 40 * TicksPerMs}

\* A 0.4 s clip is selected, in a browser with or without
\* requestVideoFrameCallback.
ProbeInit ==
    /\ videoFile = Video(400 * TicksPerMs)
    /\ videoUrl = 1
    /\ urlCount = 1
    /\ isAnalyzing = FALSE
    /\ progress = NoProgress
    /\ incidentLog = <<>>
    /\ analysisComplete = FALSE
    /\ error = NoError
    /\ detectedFps = NoFps
    /\ pc = "idle"
    /\ src = NoUrl
    /\ srcFile = NoFile
    /\ duration = 0
    /\ fps = NoFps
    /\ frameInterval = 0
    /\ t = 0
    /\ frames = <<>>
    /\ totalSamples = 0
    /\ batchIdx = 0
    /\ processed = 0
    /\ inflight = {}
    /\ script = <<>>
    /\ player = FreshPlayer
    /\ hidden = FreshVideo
    /\ rvfc \in BOOLEAN
    /\ mediaTimes = <<>>
    /\ timeout = FALSE
    /\ onFrameRequested = FALSE
    /\ playPromise = "none"
    /\ fpsPromise = NoPromise
    /\ cards = NoCards
    /\ report = NoReport
    /\ app = FreshApp
    /\ posted = NoImage

\* One run from Start to the end of extraction, detectFPS in detail.
ProbeNext ==
    \/ /\ HandleStartAnalysis
       /\ hidden' = FreshVideo
       /\ UNCHANGED <<player, probeVars, viewVars, imageVars>>
    \/ \E playAllowed \in BOOLEAN : DetectFPS(playAllowed)
    \/ PlayStarted
    \/ PlayRejected
    \/ TimeoutFires
    \/ \E d \in ProbeDeltas : OnFrame(d)
    \/ AwaitDetectFPS
    \/ ~Delivered /\ Seeked /\ UNCHANGED deviceVars
    \/ /\ ~Delivered
       /\ Encoded
       /\ ExtractSeek
       /\ UNCHANGED <<player, probeVars, viewVars, imageVars>>

\* Timers fire and a resolved await resumes.
ProbeSpec ==
    /\ ProbeInit
    /\ [][ProbeNext]_vars
    /\ WF_vars(TimeoutFires)
    /\ WF_vars(AwaitDetectFPS)

\* -------------------------------------------------- rate specification --
\* Media-time steps in the rate specification: none, 4 ms (250 fps), 17 ms
\* (59 fps) and 2.5 s (0.4 fps).
RateDeltas == {0, 4 * TicksPerMs, 17 * TicksPerMs, 2500 * TicksPerMs}

\* detectFPS is measuring: the timer is armed, playback has started, the
\* frame callback is requested.
RateInit ==
    /\ videoFile = Video(400 * TicksPerMs)
    /\ videoUrl = 1
    /\ urlCount = 1
    /\ isAnalyzing = TRUE
    /\ progress = NoProgress
    /\ incidentLog = <<>>
    /\ analysisComplete = FALSE
    /\ error = NoError
    /\ detectedFps = NoFps
    /\ pc = "probing"
    /\ src = 1
    /\ srcFile = Video(400 * TicksPerMs)
    /\ duration = 400 * TicksPerMs
    /\ fps = NoFps
    /\ frameInterval = 0
    /\ t = 0
    /\ frames = <<>>
    /\ totalSamples = 0
    /\ batchIdx = 0
    /\ processed = 0
    /\ inflight = {}
    /\ script = <<>>
    /\ player = FreshPlayer
    /\ hidden = [currentTime |-> Zero, paused |-> FALSE]
    /\ rvfc = TRUE
    /\ mediaTimes = <<>>
    /\ timeout = TRUE
    /\ onFrameRequested = TRUE
    /\ playPromise = "fulfilled"
    /\ fpsPromise = [state |-> "pending", value |-> 0]
    /\ cards = NoCards
    /\ report = NoReport
    /\ app = FreshApp
    /\ posted = NoImage

\* The measurement: ten frame callbacks with any of those steps between
\* them.
RateNext == \E d \in RateDeltas : OnFrame(d)

RateSpec == RateInit /\ [][RateNext]_vars

\* ---------------------------------------------- severity specification --
\* Raw scores are integers 0..ScoreScale standing for score / ScoreScale.
ScoreScale == 100 * PerPercent

\* Mutant of getSeverity: the percentage is rounded to a whole number, as
\* the displayed confidence is, before it is compared.
getSeverityRounded(rawScore) ==
    LET pct == (2 * rawScore * 100 + ScoreScale) \div (2 * ScoreScale) IN
    IF pct >= 85 THEN "Critical"
    ELSE IF pct >= 65 THEN "High"
    ELSE "Moderate"

\* getSeverity(rawScore): pct = rawScore * 100 (here in 1/ScoreScale of a
\* percent), compared with 85 and 65.
getSeverity(rawScore) ==
    LET pct == rawScore * 100 IN
    IF pct >= 85 * ScoreScale THEN "Critical"
    ELSE IF pct >= 65 * ScoreScale THEN "High"
    ELSE "Moderate"

\* sevOf(score): the score compared with 0.85 and 0.65.
sevOf(score) ==
    IF score >= 85 * PerPercent THEN "Critical"
    ELSE IF score >= 65 * PerPercent THEN "High"
    ELSE "Moderate"

\* The three filters of the report's severity breakdown, counted; the
\* breakdown is drawn only when the log has incidents.
BreakdownCounts(log) ==
    IF Len(log) = 0 THEN <<0, 0, 0>>
    ELSE << Cardinality({i \in 1..Len(log) :
                            log[i].raw_score >= 85 * PerPercent}),
            Cardinality({i \in 1..Len(log) :
                            /\ log[i].raw_score >= 65 * PerPercent
                            /\ log[i].raw_score < 85 * PerPercent}),
            Cardinality({i \in 1..Len(log) :
                            log[i].raw_score < 65 * PerPercent}) >>

\* Scores at and around the two thresholds and the ends of the range.
KeyScores ==
    { 0, 40 * PerPercent, 65 * PerPercent - 1, 65 * PerPercent,
      70 * PerPercent, 85 * PerPercent - 1, 85 * PerPercent,
      90 * PerPercent, ScoreScale }

\* The incident logs the severity specification draws: one incident of any
\* score, or up to MaxIncidents incidents of key scores.
SeverityLogs ==
    { <<[timestamp |-> 0, raw_score |-> c]>> : c \in 0..ScoreScale }
      \cup UNION { [1..n -> {[timestamp |-> 0, raw_score |-> c] :
                                c \in KeyScores}] : n \in 0..MaxIncidents }

\* A completed analysis with any of those logs.
SeverityInit ==
    /\ DevicesFresh
    /\ videoFile = Video(1200 * TicksPerMs)
    /\ videoUrl = 1
    /\ urlCount = 1
    /\ isAnalyzing = FALSE
    /\ incidentLog \in SeverityLogs
    /\ progress = [processed |-> MaxIncidents + 1, total |-> MaxIncidents + 1]
    /\ analysisComplete = TRUE
    /\ error = NoError
    /\ detectedFps = DEFAULT_FPS
    /\ pc = "idle"
    /\ src = 1
    /\ srcFile = Video(1200 * TicksPerMs)
    /\ duration = 1200 * TicksPerMs
    /\ fps = DEFAULT_FPS
    /\ frameInterval = 0
    /\ t = 0
    /\ frames = <<>>
    /\ totalSamples = 0
    /\ batchIdx = 0
    /\ processed = 0
    /\ inflight = {}
    /\ script = <<>>

\* The incident cards (and the heatmap modal) render their severity badge.
RenderCards ==
    /\ videoFile # NoFile
    /\ ~cards.shown
    /\ cards' = [shown |-> TRUE,
                 labels |-> [i \in 1..Len(incidentLog) |->
                                getSeverity(incidentLog[i].raw_score)]]
    /\ UNCHANGED <<uiVars, urlCount, runVars, mediaVars, probeVars, report,
                   imageVars>>

\* The 'Download PDF Report' button, rendered when analysisComplete:
\* generateVideoReport draws the breakdown, one page per incident and the
\* summary table.
GenerateVideoReport ==
    /\ videoFile # NoFile
    /\ analysisComplete
    /\ ~report.made
    /\ report' = [made |-> TRUE,
                  counts |-> BreakdownCounts(incidentLog),
                  pages |-> [i \in 1..Len(incidentLog) |->
                               sevOf(incidentLog[i].raw_score)],
                  rows |-> [i \in 1..Len(incidentLog) |->
                              sevOf(incidentLog[i].raw_score)]]
    /\ UNCHANGED <<uiVars, urlCount, runVars, mediaVars, probeVars, cards,
                   imageVars>>

SeverityNext ==
    \/ RenderCards
    \/ GenerateVideoReport

SeveritySpec == SeverityInit /\ [][SeverityNext]_vars

\* -------------------------------------------------- image specification --
\* The files a user may drop or pick in image mode.
ImageFiles == {Image(n) : n \in 1..MaxImages} \cup {NotAnImage, NoImage}

\* App's handleFile (file input and drop zone, available at all times):
\* ignores null and files that are not images, else selects the file,
\* creates its preview URL and clears result and error.
AppHandleFile(file) ==
    /\ IF file = NoImage \/ ~file.isImage
       THEN app' = app
       ELSE /\ app.preview < MaxPreviews
            /\ app' = [app EXCEPT !.selectedFile = file,
                                  !.preview = app.preview + 1,
                                  !.result = NoResult,
                                  !.error = NoError]
    /\ UNCHANGED <<uiVars, urlCount, runVars, mediaVars, probeVars, viewVars,
                   posted>>

\* handleAnalyze up to its await; the Analyze button is disabled while no
\* file is selected or a request is loading.
HandleAnalyze ==
    /\ app.selectedFile # NoImage
    /\ ~app.loading
    /\ app' = [app EXCEPT !.loading = TRUE, !.error = NoError]
    /\ posted' = app.selectedFile
    /\ UNCHANGED <<uiVars, urlCount, runVars, mediaVars, probeVars, viewVars>>

\* axios.post resolves: setResult(response.data), then finally.
PredictResponds(crack) ==
    /\ posted # NoImage
    /\ app' = [app EXCEPT !.result = [of |-> posted, crack |-> crack],
                          !.loading = FALSE]
    /\ posted' = NoImage
    /\ UNCHANGED <<uiVars, urlCount, runVars, mediaVars, probeVars, viewVars>>

\* axios.post rejects: catch sets the error, then finally.
PredictFails ==
    /\ posted # NoImage
    /\ app' = [app EXCEPT !.error = "Could not reach the server",
                          !.loading = FALSE]
    /\ posted' = NoImage
    /\ UNCHANGED <<uiVars, urlCount, runVars, mediaVars, probeVars, viewVars>>

ImageNext ==
    \/ \E file \in ImageFiles : AppHandleFile(file)
    \/ HandleAnalyze
    \/ \E crack \in BOOLEAN : PredictResponds(crack)
    \/ PredictFails

\* Image mode from the page's first render.
ImageSpec == Init /\ [][ImageNext]_vars

\* ----------------------------------------------- scenario specification --
\* One run over a 5-second clip that detectFPS probes at 10 fps, the
\* endpoint answering each frame by any script.
ScenarioInit ==
    /\ DevicesFresh
    /\ videoFile = Video(5000 * TicksPerMs)
    /\ videoUrl = 1
    /\ urlCount = 1
    /\ isAnalyzing = FALSE
    /\ progress = NoProgress
    /\ incidentLog = <<>>
    /\ analysisComplete = FALSE
    /\ error = NoError
    /\ detectedFps = NoFps
    /\ pc = "idle"
    /\ src = NoUrl
    /\ srcFile = NoFile
    /\ duration = 0
    /\ fps = NoFps
    /\ frameInterval = 0
    /\ t = 0
    /\ frames = <<>>
    /\ totalSamples = 0
    /\ batchIdx = 0
    /\ processed = 0
    /\ inflight = {}
    /\ script = <<>>

ScenarioNext ==
    \/ HandleStartAnalysis /\ UNCHANGED deviceVars
    \/ MetadataLoaded /\ UNCHANGED deviceVars
    \/ ProbeResolved(10) /\ UNCHANGED deviceVars
    \/ Seeked /\ UNCHANGED deviceVars
    \/ Encoded /\ UNCHANGED deviceVars
    \/ (\E b \in inflight, s \in Scripts : Settle(b, s))
          /\ UNCHANGED deviceVars

ScenarioSpec == ScenarioInit /\ [][ScenarioNext]_vars

\* ------------------------------------------------------------ claims ----
\* Extraction has ended and the frames were handed to the batch loop.
Extracted == pc = "dispatching" \/ (pc = "idle" /\ Len(script) > 0)

\* The run's video is no longer the selected one: 'Change file' was clicked
\* since the run started (object URLs are never reused).
Abandoned == pc # "idle" /\ src # videoUrl

LogTimestamps == {incidentLog[i].timestamp : i \in 1..Len(incidentLog)}
ScheduleTimestamps == {frames[i].timestamp : i \in 1..Len(frames)}
NoDuplicateIncident ==
    \A i, j \in 1..Len(incidentLog) :
        i # j => incidentLog[i].timestamp # incidentLog[j].timestamp

\* The request for frame b has settled / has been issued.
Settled(b) == Extracted /\ script[b] # <<>>
Issued(b) == b \in inflight \/ Settled(b)
\* The answer sendFrame received for frame b, "none" before it settles.
Received(scr, b) == IF scr[b] = <<>> THEN "none" ELSE Answer(scr[b], 1)
\* The batch frame b belongs to when frames go out three at a time.
BatchNo(b) == ((b - 1) \div BATCH_SIZE) + 1

FailFailCrack == <<"fail", "fail", "crack">>
FailAlways == <<"fail", "fail", "fail">>

\* C1 (as claimed): a frame whose request fails on its first two attempts
\* and succeeds on the third is recorded with the payload of that success:
\* sendFrame yields its incident, and once its batch is done in a run whose
\* log was not reset, the incident is in the log.
C1_RetriedUntilSuccess ==
    \A b \in 1..Len(script) :
        script[b] = FailFailCrack =>
            /\ SendFrame(frames[b], script[b]).value
                 = <<[timestamp |-> frames[b].timestamp]>>
            /\ (b <= processed /\ src = videoUrl)
                 => frames[b].timestamp \in LogTimestamps

\* C2: whatever requests fail, a step of the run in its dispatch phase
\* leaves the error alone and either waits for outstanding requests or ends
\* the run Complete with processed = total = the number of frames; a frame
\* whose request failed has no incident.
C2_FailedFramesDoNotStopRun ==
    [][ (pc = "dispatching" /\ runVars' # runVars) =>
          /\ error' = error
          /\ \/ pc' = "dispatching" /\ inflight' # {}
             \/ /\ pc' = "idle"
                /\ analysisComplete'
                /\ ~isAnalyzing'
                /\ progress'.processed = progress'.total
                /\ progress'.total = Len(frames)
          /\ \A b \in 1..Len(frames) :
                Received(script', b) = "fail"
                    => frames[b].timestamp \notin LogTimestamps' ]_vars

\* C2's case: a run that ended Complete although requests failed for good.
C2_Witness ==
    /\ analysisComplete
    /\ pc = "idle"
    /\ Len(frames) > BATCH_SIZE
    /\ \E b \in 1..Len(script) : script[b] = FailAlways
    /\ progress = [processed |-> Len(frames), total |-> Len(frames)]

\* C3: requests go out in schedule order, three to a batch; a request of a
\* later batch is issued only when every request of the earlier batches has
\* settled, so at most three are in flight.
C3_BatchBarrier ==
    Extracted =>
        /\ Cardinality(inflight) <= BATCH_SIZE
        /\ \A i, j \in 1..Len(frames) :
              /\ (i < j /\ Issued(j)) => Issued(i)
              /\ (BatchNo(i) < BatchNo(j) /\ Issued(j)) => Settled(i)
              /\ (BatchNo(i) = BatchNo(j) /\ Issued(j)) => Issued(i)

\* C3's case: the second batch is in flight behind a settled first batch.
C3_Witness ==
    /\ pc = "dispatching"
    /\ batchIdx = 2
    /\ inflight # {}
    /\ \A b \in 1..BATCH_SIZE : Settled(b)

\* C4 (as claimed): once the video was discarded or replaced, no step of
\* the abandoned run in its probe, extraction or dispatch phase changes the
\* incident log, RunProgress, the Complete flag or the error.
C4_AbandonedRunIsInert ==
    [][ (/\ Abandoned
         /\ pc \in {"probing", "seeking", "encoding", "dispatching"}
         /\ runVars' # runVars) =>
          UNCHANGED <<incidentLog, progress, analysisComplete, error>> ]_vars

\* C5: discarding the video or selecting a new one while 0 < processed <
\* total leaves RunProgress {0, 0} and an empty incident log in the next
\* state.
C5_CancelResetsProgressAndLog ==
    [][ (videoUrl' # videoUrl
            /\ 0 < progress.processed
            /\ progress.processed < progress.total) =>
          /\ progress' = NoProgress
          /\ incidentLog' = <<>> ]_vars

\* C5's case: a run past its first batch, with batches to go, whose
\* progress reads {0, 0}: the cancel acted on a progress of {3, total}.
C5_Witness ==
    /\ pc = "dispatching"
    /\ processed > 0
    /\ Abandoned
    /\ progress = NoProgress
    /\ incidentLog = <<>>

\* C6 (as claimed): incident timestamps are timestamps of the current run's
\* schedule, none twice, and while a run dispatches or stands Complete a
\* frame has exactly one incident if the result the batch loop received for
\* it was positive, and none otherwise.
C6_IncidentsMatchPositives ==
    /\ LogTimestamps \subseteq ScheduleTimestamps
    /\ NoDuplicateIncident
    /\ (pc = "dispatching" \/ analysisComplete) =>
          \A b \in 1..Len(frames) :
              LET n == Cardinality({i \in 1..Len(incidentLog) :
                          incidentLog[i].timestamp = frames[b].timestamp})
              IN IF b <= processed /\ Received(script, b) = "crack"
                 THEN n = 1
                 ELSE n = 0

\* C7 (as claimed): the incident log is a strict subset of the schedule: some
\* scheduled timestamp has no incident.
C7_StrictSubset ==
    Extracted => \E b \in 1..Len(frames) :
                    frames[b].timestamp \notin LogTimestamps

\* C7 (amended): the incident log is a subset of the schedule, strict or
\* not, without duplicate timestamps.
C7_IncidentsWithinSchedule ==
    /\ LogTimestamps \subseteq ScheduleTimestamps
    /\ NoDuplicateIncident
    /\ Len(incidentLog) <= Len(frames)

\* C7's case: every frame of a run of two batches was positive, and the log
\* holds the whole schedule.
C7_Witness ==
    /\ analysisComplete
    /\ Len(frames) > BATCH_SIZE
    /\ LogTimestamps = ScheduleTimestamps

\* C8: a RunProgress other than the reset one carries as total the number
\* of frames extractFrames produced, which is the number of request slots
\* of the batch loop; at Complete every one of them was dispatched.
C8_TotalIsFrameCount ==
    /\ progress # NoProgress =>
          /\ Extracted
          /\ progress.total = Len(frames)
          /\ Len(script) = Len(frames)
    /\ pc = "dispatching" => totalSamples = Len(frames)
    /\ analysisComplete => \A b \in 1..Len(frames) : Settled(b)

\* C8's case: a clip whose floor(duration / interval) differs from the
\* number of frames produced.
C8_Witness ==
    /\ pc = "dispatching"
    /\ progress.total = Len(frames)
    /\ (duration * fps) \div frameInterval # Len(frames)

\* C9 (as claimed): for every duration > 0 and every probed rate in 1..120
\* the timestamps extractFrames produces, rounded to 3 decimals, number at
\* least one, start at 0, increase strictly, and the last one is strictly
\* less than the duration.
C9_ScheduleInsideVideo ==
    Extracted =>
        /\ Len(frames) >= 1
        /\ frames[1].timestamp = 0
        /\ \A i \in 1..(Len(frames) - 1) :
              frames[i].timestamp < frames[i + 1].timestamp
        /\ frames[Len(frames)].timestamp * TicksPerMs < duration

\* C10: for every probed rate in 1..120 and every duration > 0 the sampling
\* interval extractFrames steps by, min(10 / fps, duration), is positive and
\* at most the duration (both sides scaled by fps).
C10_IntervalWithinDuration ==
    pc \in {"seeking", "encoding"} =>
        /\ 0 < frameInterval
        /\ frameInterval <= duration * fps

\* C10's case: a clip shorter than one stride, where the clamp decides.
C10_Witness ==
    /\ pc = "encoding"
    /\ SAMPLE_EVERY * TicksPerSecond > duration * fps
    /\ frameInterval = duration * fps

\* C11: a 5-second clip probed at 10 fps is sampled every second (the
\* interval, a numerator over fps, is one second times 10), the schedule is
\* exactly the 5 frames stamped 0, 1, 2, 3, 4 s, and a run in which all 5
\* requests were answered negative ends Complete with an empty incident log
\* and RunProgress {5, 5}.
C11_FiveSecondClip ==
    /\ pc \in {"seeking", "encoding"} =>
          frameInterval = TicksPerSecond * fps
    /\ Extracted =>
          /\ fps = 10
          /\ [i \in 1..Len(frames) |-> frames[i].timestamp]
                = <<0, 1000, 2000, 3000, 4000>>
    /\ (/\ Extracted
        /\ pc = "idle"
        /\ \A b \in 1..Len(script) : Received(script, b) = "safe") =>
          /\ analysisComplete
          /\ ~isAnalyzing
          /\ error = NoError
          /\ incidentLog = <<>>
          /\ progress = [processed |-> 5, total |-> 5]

\* C11's case: the run over the 5-second clip has ended, five negative
\* answers received.
C11_Witness ==
    /\ pc = "idle"
    /\ Len(script) = 5
    /\ \A b \in 1..Len(script) : script[b] = <<"safe">>
    /\ progress = [processed |-> 5, total |-> 5]

\* C12 (as claimed): while a run is in its dispatch phase (its schedule is
\* computed), no step, of the run or of the user, changes RunProgress.total
\* or lowers RunProgress.processed.
C12_ProgressMonotone ==
    [][ pc = "dispatching" =>
          /\ progress'.total = progress.total
          /\ progress'.processed >= progress.processed ]_vars

\* C13: the step in which the k-th batch settles (its last outstanding
\* request) emits RunProgress {min(3k, total), total}, whether its requests
\* failed or succeeded; every other step of the dispatch phase leaves
\* requests of the batch outstanding and the processed counter as it is,
\* and, when it is a step of the run, RunProgress as it is.
C13_ProgressPerBatch ==
    [][ pc = "dispatching" =>
          IF batchIdx' # batchIdx \/ pc' = "idle"
          THEN /\ inflight = {b \in inflight : script'[b] # script[b]}
               /\ Cardinality(inflight) = 1
               /\ progress' = [processed |->
                                  Min(BATCH_SIZE * batchIdx, Len(frames)),
                               total |-> Len(frames)]
          ELSE /\ inflight' # {}
               /\ processed' = processed
               /\ (runVars' # runVars => progress' = progress) ]_vars

\* C13's case: the first batch has settled with a request that failed for
\* good, and RunProgress went up by 3.
C13_Witness ==
    /\ pc = "dispatching"
    /\ batchIdx = 2
    /\ src = videoUrl
    /\ \E b \in 1..BATCH_SIZE : script[b] = FailAlways
    /\ progress = [processed |-> BATCH_SIZE, total |-> Len(frames)]

\* C14: in every state reached with analysisComplete, processed = total,
\* and a step taken while analysisComplete leaves the incident log as it
\* is, unless it is a reset, which empties the log and leaves Complete.
C14_CompleteIsFinal ==
    [][ /\ analysisComplete' => progress'.processed = progress'.total
        /\ analysisComplete =>
              \/ incidentLog' = incidentLog
              \/ incidentLog' = <<>> /\ ~analysisComplete' ]_vars

\* C14's case: a Complete analysis with incidents in its log.
C14_Witness ==
    /\ analysisComplete
    /\ pc = "idle"
    /\ Len(incidentLog) > 0
    /\ progress.processed = progress.total
    /\ progress.total > 0

\* C15: from the start of a run until its schedule is fixed (metadata
\* load, probe, extraction) the incident log is empty and RunProgress is
\* {0, 0}.
C15_RunStartsClean ==
    pc \in {"loading", "probing", "seeking", "encoding"} =>
        /\ incidentLog = <<>>
        /\ progress = NoProgress

\* C15's case: a run in extraction on a video selected after an earlier
\* one.
C15_Witness ==
    /\ pc = "encoding"
    /\ urlCount > 1
    /\ src = videoUrl
    /\ incidentLog = <<>>
    /\ progress = NoProgress

\* C16: a call of seekTo with an incident's timestamp leaves the visible
\* player paused at that timestamp and everything else (React state, the
\* run, the hidden video, the probe) as it was, in whatever state it is
\* called; called on a player already paused at that timestamp it changes
\* nothing; and the hidden video only ever changes in a step of the run.
C16_SeekOnlyMovesPlayer ==
    [][ /\ \A i \in 1..Len(incidentLog) :
              LET ts == incidentLog[i].timestamp IN
              SeekTo(ts) =>
                /\ player' = [currentTime |-> ts, paused |-> TRUE]
                /\ UNCHANGED <<uiVars, urlCount, runVars, hidden, probeVars,
                   viewVars, imageVars>>
                /\ player = [currentTime |-> ts, paused |-> TRUE]
                      => UNCHANGED vars
        /\ hidden' # hidden => runVars' # runVars ]_vars

\* C16's case: mid-run, the visible player was moved to an incident and
\* paused while the hidden video stands at a later frame.
C16_Witness ==
    /\ pc = "dispatching"
    /\ Len(incidentLog) > 0
    /\ player = [currentTime |-> incidentLog[1].timestamp, paused |-> TRUE]
    /\ player.currentTime > 0
    /\ hidden.currentTime.num > 0

\* The tier the specification assigns to raw score c (c / ScoreScale in
\* [0, 1]): Critical from 0.85, High from 0.65 up to 0.85, Moderate below.
Tier(c) ==
    IF 100 * c >= 85 * ScoreScale THEN "Critical"
    ELSE IF 100 * c >= 65 * ScoreScale THEN "High"
    ELSE "Moderate"

\* The number of incidents of the log whose tier is tier.
TierCount(tier) ==
    Cardinality({i \in 1..Len(incidentLog) :
                    Tier(incidentLog[i].raw_score) = tier})

\* C17: the badge of every card, the severity on every report page and in
\* every row of the report's table are the tier of the incident's raw
\* score; the breakdown counts are the numbers of incidents per tier and
\* sum to the number of incidents; 0.90 and 0.85 are Critical, 0.70 and
\* 0.65 High, 0.40 Moderate.
C17_SeverityAgrees ==
    /\ cards.shown =>
          \A i \in 1..Len(incidentLog) :
              cards.labels[i] = Tier(incidentLog[i].raw_score)
    /\ report.made =>
          /\ \A i \in 1..Len(incidentLog) :
                /\ report.pages[i] = Tier(incidentLog[i].raw_score)
                /\ report.rows[i] = Tier(incidentLog[i].raw_score)
          /\ report.counts = <<TierCount("Critical"), TierCount("High"),
                               TierCount("Moderate")>>
          /\ report.counts[1] + report.counts[2] + report.counts[3]
                = Len(incidentLog)
    /\ \A f \in {getSeverity(90 * PerPercent), sevOf(90 * PerPercent),
                  getSeverity(85 * PerPercent), sevOf(85 * PerPercent)} :
          f = "Critical"
    /\ \A f \in {getSeverity(70 * PerPercent), sevOf(70 * PerPercent),
                  getSeverity(65 * PerPercent), sevOf(65 * PerPercent)} :
          f = "High"
    /\ \A f \in {getSeverity(40 * PerPercent), sevOf(40 * PerPercent)} :
          f = "Moderate"

\* C17's case: cards and report derived from a log with an incident on
\* each threshold and one below both.
C17_Witness ==
    /\ cards.shown
    /\ report.made
    /\ Len(incidentLog) = 3
    /\ incidentLog[1].raw_score = 85 * PerPercent
    /\ incidentLog[2].raw_score = 65 * PerPercent
    /\ incidentLog[3].raw_score = 65 * PerPercent - 1
    /\ report.counts = <<1, 1, 1>>

\* The places of the positive steps in the sampled media times, and the
\* step at place i.
PositiveSteps == {i \in 1..(Len(mediaTimes) - 1) :
                    mediaTimes[i + 1] > mediaTimes[i]}
StepAt(i) == mediaTimes[i + 1] - mediaTimes[i]

\* m is the median the probe uses: the positive step that has at most
\* floor(n / 2) of the n positive steps below it and more than floor(n / 2)
\* at or below it.
IsMedianStep(m) ==
    LET k == Cardinality(PositiveSteps) \div 2 IN
    /\ Cardinality({j \in PositiveSteps : StepAt(j) < m}) <= k
    /\ Cardinality({j \in PositiveSteps : StepAt(j) <= m}) >= k + 1

\* C18: the value detectFPS delivers after measuring is an integer in
\* 1..120; with no positive step it is 30; else, 1 / median rounded to the
\* nearest integer (v - 1/2 <= 1/median < v + 1/2) is delivered if it lies
\* in 1..120, and 30 is delivered if it is 0 or above 120.
C18_RateInRange ==
    Delivered =>
        LET v == fpsPromise.value IN
        /\ v \in 1..MAX_FPS
        /\ Len(mediaTimes) = FRAMES_TO_MEASURE
        /\ IF PositiveSteps = {}
           THEN v = DEFAULT_FPS
           ELSE \E i \in PositiveSteps :
                  LET m == StepAt(i) IN
                  /\ IsMedianStep(m)
                  /\ IF /\ m <= 2 * TicksPerSecond
                        /\ 2 * TicksPerSecond < (2 * MAX_FPS + 1) * m
                     THEN /\ (2 * v - 1) * m <= 2 * TicksPerSecond
                          /\ 2 * TicksPerSecond < (2 * v + 1) * m
                     ELSE v = DEFAULT_FPS

\* C18's case: a measurement with steps of 0, 4 ms and 2.5 s among the
\* samples delivers a computed rate other than the default.
C18_Witness ==
    /\ Delivered
    /\ fpsPromise.value # DEFAULT_FPS
    /\ \E i \in 1..(Len(mediaTimes) - 1) : StepAt(i) = 0
    /\ \E i \in PositiveSteps : StepAt(i) = 4 * TicksPerMs
    /\ \E i \in PositiveSteps : StepAt(i) = 2500 * TicksPerMs

\* C19: whenever detectFPS has delivered its value and the caller has not
\* resumed yet, the hidden video is paused at time zero.
C19_PausedAtZeroOnReturn ==
    Delivered =>
        /\ hidden.paused
        /\ hidden.currentTime = Zero

\* C19's case: a rate measured over playback that had advanced is
\* delivered.
C19_Witness ==
    /\ Delivered
    /\ Len(mediaTimes) = FRAMES_TO_MEASURE
    /\ mediaTimes[FRAMES_TO_MEASURE] > 0
    /\ fpsPromise.value # DEFAULT_FPS
    /\ hidden = FreshVideo

\* C20: while detectFPS is pending its timer is armed; a value delivered
\* with fewer than 10 samples taken (no frame callback facility, play()
\* rejected, timer fired) is 30; the step that resumes the run from a
\* delivered value enters extraction with that rate and without error; and
\* a run that awaits the probe always gets to extraction.
C20_ProbeRecovers ==
    /\ [](fpsPromise.state = "pending" => timeout)
    /\ []((Delivered /\ Len(mediaTimes) < FRAMES_TO_MEASURE)
            => fpsPromise.value = DEFAULT_FPS)
    /\ [][ Delivered =>
             /\ pc' = "seeking"
             /\ fps' = fpsPromise.value
             /\ isAnalyzing'
             /\ error' = NoError ]_vars
    /\ (pc = "probing") ~> (pc = "seeking")

\* C20's case: the timer fired after some frames, and the run is in
\* extraction at the default rate.
C20_Witness ==
    /\ pc = "seeking"
    /\ fps = DEFAULT_FPS
    /\ rvfc
    /\ playPromise = "fulfilled"
    /\ Len(mediaTimes) > 0
    /\ Len(mediaTimes) < FRAMES_TO_MEASURE
    /\ error = NoError

\* C21: the step in which a run learns its video's duration is not finite
\* or not positive (extractFrames throws) ends the run: no frame was
\* extracted, no request is in flight, the incident log is empty, the
\* analysis is not Complete, the error message is set and isAnalyzing is
\* off, so that Start is offered again.
C21_BadDurationAbortsRun ==
    [][ (pc = "probing" /\ duration <= 0 /\ runVars' # runVars) =>
          /\ pc' = "idle"
          /\ frames' = <<>>
          /\ inflight' = {}
          /\ script' = <<>>
          /\ incidentLog' = <<>>
          /\ progress' = NoProgress
          /\ ~analysisComplete'
          /\ error' = "Analysis failed"
          /\ ~isAnalyzing' ]_vars

\* C21's case: the run over the stream without duration has failed after
\* the probe, its video still selected.
C21_Witness ==
    /\ pc = "idle"
    /\ srcFile = Video(0)
    /\ src = videoUrl
    /\ fps # NoFps
    /\ error = "Analysis failed"
    /\ ~isAnalyzing
    /\ ~analysisComplete
    /\ frames = <<>>

\* The incidents of the frames from b on that were answered positive, in
\* frame order.
RECURSIVE PositivesFrom(_)
PositivesFrom(b) ==
    IF b > Len(frames) THEN <<>>
    ELSE (IF Received(script, b) = "crack"
          THEN <<[timestamp |-> frames[b].timestamp]>>
          ELSE <<>>) \o PositivesFrom(b + 1)

\* C22: the final incident log of a run that was not interrupted is a
\* function of the schedule and of the answer each frame's request got
\* (positive, negative or failure): the positively answered frames'
\* incidents in frame order, in whatever order the requests settled.
C22_AggregationDeterministic ==
    (analysisComplete /\ pc = "idle" /\ src = videoUrl /\ Extracted) =>
        incidentLog = PositivesFrom(1)

\* C22's case: a completed run of two batches whose first batch had two
\* positive answers around a failed request.
C22_Witness ==
    /\ analysisComplete
    /\ pc = "idle"
    /\ src = videoUrl
    /\ Len(frames) > BATCH_SIZE
    /\ script[1] = <<"crack">>
    /\ script[2] = FailAlways
    /\ script[3] = <<"crack">>
    /\ Len(incidentLog) >= 2

\* Two positions of the hidden video are the same instant.
SamePosition(a, b) == a.num * b.den = b.num * a.den

\* C23 (as claimed): while extractFrames waits for a seek or for an encoded
\* frame, a step that is not a step of the run leaves the hidden video's
\* position and paused state as they are.
C23_SamplerOwnsVideo ==
    [][ (pc \in {"seeking", "encoding"} /\ runVars' = runVars) =>
          /\ hidden'.paused = hidden.paused
          /\ SamePosition(hidden'.currentTime, hidden.currentTime) ]_vars

\* C24 (as claimed): at no moment of a run is more than one frame request
\* in flight.
C24_OneRequestAtATime == Cardinality(inflight) <= 1

\* C25: in every state the incident log is in strictly increasing
\* timestamp order, its incidents standing in the order of their frames:
\* those of an earlier batch before those of a later one, those of one
\* batch in frame order.
C25_LogInTimestampOrder ==
    /\ \A i, j \in 1..Len(incidentLog) :
          i < j => incidentLog[i].timestamp < incidentLog[j].timestamp
    /\ Extracted =>
          \A i, j \in 1..Len(incidentLog) :
              \A a, b \in 1..Len(frames) :
                  (/\ i < j
                   /\ frames[a].timestamp = incidentLog[i].timestamp
                   /\ frames[b].timestamp = incidentLog[j].timestamp)
                      => a < b /\ BatchNo(a) <= BatchNo(b)

\* C25's case: an uninterrupted run has appended a second batch's incident
\* behind two incidents of the first batch.
C25_Witness ==
    /\ src = videoUrl
    /\ Extracted
    /\ Len(frames) > BATCH_SIZE
    /\ Len(incidentLog) = 3
    /\ incidentLog[1].timestamp = frames[1].timestamp
    /\ incidentLog[2].timestamp = frames[3].timestamp
    /\ incidentLog[3].timestamp = frames[BATCH_SIZE + 1].timestamp

\* C26: extraction is strictly sequential with one resume per seek: the
\* frame for timestamp t is painted (the step from waiting for the seek to
\* encoding) only on the seek-completion notification for t, that is with
\* the hidden video positioned at t, and the seek for the next timestamp is
\* issued only by the step that has encoded the frame for t.
C26_PaintAfterOwnSeek ==
    [][ /\ (pc = "seeking" /\ pc' = "encoding") =>
              SamePosition(hidden.currentTime, [num |-> t, den |-> fps])
        /\ (pc' = "seeking" /\ t' # t) =>
              pc \in {"probing", "encoding"} ]_vars

\* C27: at most one run is active: the analyzing flag is set exactly while
\* a run is under way (also after 'Change file' and the selection of a new
\* video), a run starts only when none is under way, and no step replaces
\* a run that is under way by another one.
C27_OneRunAtATime ==
    /\ [](isAnalyzing <=> pc # "idle")
    /\ [][ /\ (pc' = "loading" /\ runVars' # runVars) =>
                  pc = "idle" /\ ~isAnalyzing
           /\ (pc # "idle" /\ pc' # "idle") =>
                  src' = src /\ srcFile' = srcFile ]_vars

\* C27's case: a run is still sending requests for a video the user has
\* replaced by another one; Start is not offered for the new video.
C27_Witness ==
    /\ pc = "dispatching"
    /\ isAnalyzing
    /\ videoFile # NoFile
    /\ videoUrl # src
    /\ ~analysisComplete
    /\ batchIdx = 2

\* C28: in every reachable state the number of incidents is at most the
\* number of processed frames, which is at most the total: the report's
\* clear-frame count, total minus incidents, is never negative.
C28_IncidentsWithinProgress ==
    /\ Len(incidentLog) <= progress.processed
    /\ progress.processed <= progress.total
    /\ progress.total - Len(incidentLog) >= 0

\* C28's case: the user changed the file while the first batch was out,
\* and the run went on to complete with a crack in its second batch.
C28_Witness ==
    /\ src # videoUrl
    /\ analysisComplete
    /\ Len(frames) > BATCH_SIZE
    /\ Len(incidentLog) = 1
    /\ incidentLog[1].timestamp = frames[BATCH_SIZE + 1].timestamp
    /\ progress.processed = progress.total
    /\ progress.total = Len(frames)

\* C29: with a video element and an endpoint that eventually settle what
\* the run awaits, every started run eventually stops being marked as
\* analyzing, and the step that stops it leaves the run Complete or in the
\* error state.
C29_RunTerminates ==
    /\ isAnalyzing ~> ~isAnalyzing
    /\ [][ (isAnalyzing /\ ~isAnalyzing') =>
              /\ pc' = "idle"
              /\ analysisComplete' \/ error' = "Analysis failed" ]_vars

\* C29's case: a run has stopped, Complete, after the last request of its
\* second batch had failed on every attempt.
C29_Witness ==
    /\ ~isAnalyzing
    /\ pc = "idle"
    /\ analysisComplete
    /\ Len(frames) > BATCH_SIZE
    /\ script[BATCH_SIZE + 1] = FailAlways
    /\ error = NoError

\* C30: in image mode the result shown belongs to the currently selected
\* file: a response to a request posted for another file is never stored
\* as the result.
C30_ResultOfSelectedFile ==
    app.result # NoResult => app.result.of = app.selectedFile

=============================================================================
